---- MODULE Spec2Model ----
(***************************************************************************)
(* A model of pytorch_object_detection/mask_rcnn/my_dataset_coco.py: the   *)
(* CocoDetection dataset (constructor, __getitem__, __len__,               *)
(* get_height_and_width, parse_targets) and the helpers                    *)
(* _coco_remove_images_without_annotations and convert_coco_poly_mask.     *)
(*                                                                         *)
(* Python values are modelled as follows.  A dict is a sequence of         *)
(* <<key, value>> pairs with distinct keys, in insertion order.  A str     *)
(* built by str(int) is the sequence of its decimal digits.  A JSON text   *)
(* is the sequence of its members.  Box coordinates are integers (pixel    *)
(* units).  A binary mask is a function from the pixels of a               *)
(* height x width grid to BOOLEAN.                                         *)
(***************************************************************************)
EXTENDS Integers, Sequences, FiniteSets, TLC

VARIABLES
    disk,         \* the annotation files (instances_<dataset><years>.json) that exist
    files,        \* the side files of the working directory: name -> JSON text or NoFile
    self,         \* the dataset object of the latest construction, NoDataset if it raised
    lastWritten,  \* history: the coco91to80 dict of the latest train construction
    last,         \* the latest call and what it returned
    input         \* the arguments of a direct call of a helper (NoInput otherwise)

vars == <<disk, files, self, lastWritten, last, input>>

(* Bounds of the model *)
MaxCats == 2
MaxImgs == 2
MaxAnns == 2
MaxDim == 2
MaxSegs == 2
MaxParts == 2

NoFile == [exists |-> FALSE]
NoDataset == [ok |-> FALSE]
NoInput == [fn |-> "none"]
NoDict == [written |-> FALSE]
Raised(e) == [raised |-> TRUE, error |-> e]

MapFile == "coco91_to_80.json"
IndicesFile == "coco80_indices.json"

-----------------------------------------------------------------------------
(* Python built-ins *)

Digits == <<"0", "1", "2", "3", "4", "5", "6", "7", "8", "9">>

(* str(n) for an int n *)
RECURSIVE Str(_)
Str(n) ==
    IF n < 0 THEN <<"-">> \o Str(-n)
    ELSE IF n < 10 THEN <<Digits[n + 1]>>
    ELSE Str(n \div 10) \o <<Digits[(n % 10) + 1]>>

HasKey(d, k) == \E i \in 1..Len(d) : d[i][1] = k

(* d[k], for a key of d (Python raises KeyError otherwise) *)
Lookup(d, k) == d[CHOOSE i \in 1..Len(d) : d[i][1] = k][2]

(* d[k] = v *)
DictSet(d, k, v) ==
    IF HasKey(d, k)
    THEN [i \in 1..Len(d) |-> IF d[i][1] = k THEN <<k, v>> ELSE d[i]]
    ELSE Append(d, <<k, v>>)

(* dict(pairs) *)
RECURSIVE DictOf(_)
DictOf(pairs) ==
    IF pairs = <<>> THEN <<>>
    ELSE LET n == Len(pairs)
         IN  DictSet(DictOf(SubSeq(pairs, 1, n - 1)), pairs[n][1], pairs[n][2])

Keys(d) == {d[i][1] : i \in 1..Len(d)}

(* json.dumps(d): one member per item, in the dict's order *)
JsonDumps(d) == [i \in 1..Len(d) |-> [key |-> d[i][1], value |-> d[i][2]]]

(* json.load(f): members are inserted in the text's order *)
JsonLoad(text) == DictOf([i \in 1..Len(text) |-> <<text[i].key, text[i].value>>])

(* sorted(S) *)
RECURSIVE Sorted(_)
Sorted(S) ==
    IF S = {} THEN <<>>
    ELSE LET m == CHOOSE x \in S : \A y \in S : x <= y
         IN  <<m>> \o Sorted(S \ {m})

(* seq[i] for a Python list: 0-based, negative indices count from the end; *)
(* an index outside -len..len-1 raises IndexError                          *)
InRange(seq, i) == -Len(seq) <= i /\ i < Len(seq)
PyIndex(seq, i) == IF i >= 0 THEN seq[i + 1] ELSE seq[Len(seq) + i + 1]

Min(a, b) == IF a < b THEN a ELSE b
Max(a, b) == IF a > b THEN a ELSE b

(* Tensor.clamp_(min=lo, max=hi) on one element *)
Clamp(v, lo, hi) == Min(Max(v, lo), hi)

-----------------------------------------------------------------------------
(* pycocotools.coco.COCO *)

(* coco.getAnnIds(imgIds=img_id) followed by coco.loadAnns(ann_ids) *)
LoadAnns(coco, img_id) ==
    SelectSeq(coco.anns, LAMBDA a : a.image_id = img_id)

-----------------------------------------------------------------------------
(* _coco_remove_images_without_annotations *)

(* seeded fault: a box counts as empty only when both sides are <= 1 *)
_has_only_empty_bbox_both(anno) ==
    \A i \in 1..Len(anno) : \A j \in 3..4 : anno[i].bbox[j] <= 1

_has_only_empty_bbox(anno) ==
    \A i \in 1..Len(anno) : \E j \in 3..4 : anno[i].bbox[j] <= 1

_has_valid_annotation(anno) ==
    IF Len(anno) = 0 THEN FALSE
    ELSE IF _has_only_empty_bbox(anno) THEN FALSE
    ELSE TRUE

RECURSIVE _coco_remove_images_without_annotations(_, _)
_coco_remove_images_without_annotations(dataset, ids) ==
    IF ids = <<>> THEN <<>>
    ELSE LET n == Len(ids)
             img_id == ids[n]
             valid_ids == _coco_remove_images_without_annotations(dataset, SubSeq(ids, 1, n - 1))
         IN  IF _has_valid_annotation(LoadAnns(dataset, img_id))
             THEN Append(valid_ids, img_id)
             ELSE valid_ids

-----------------------------------------------------------------------------
(* convert_coco_poly_mask *)

Pixels(height, width) == (1..height) \X (1..width)

(* coco_mask.frPyObjects + coco_mask.decode of one polygon part: a part is *)
(* the rectangle <<x0, y0, x1, y1>>; it covers the pixels of the grid      *)
(* whose column is in x0+1..x1 and row in y0+1..y1.                        *)
DecodePart(part, height, width) ==
    [p \in Pixels(height, width) |->
        /\ part[1] < p[2] /\ p[2] <= part[3]
        /\ part[2] < p[1] /\ p[1] <= part[4]]

(* frPyObjects + decode of one segmentation.  A list of polygon parts      *)
(* decodes to an array of shape (height, width, n); an RLE dict decodes to *)
(* an array of shape (height, width).                                      *)
Decode(polygons, height, width) ==
    IF polygons.kind = "polygons"
    THEN [shape |-> <<height, width, Len(polygons.parts)>>,
          planes |-> [k \in 1..Len(polygons.parts) |->
                        DecodePart(polygons.parts[k], height, width)]]
    ELSE [shape |-> <<height, width>>,
          plane |-> [p \in Pixels(height, width) |-> p \in polygons.counts]]

(* mask = mask[..., None] when the array has fewer than 3 dimensions *)
AddAxis(mask) ==
    IF Len(mask.shape) < 3
    THEN [shape |-> mask.shape \o <<1>>, planes |-> <<mask.plane>>]
    ELSE mask

(* seeded fault: mask.all(dim=2) *)
AnyDim2_all(mask) ==
    [p \in Pixels(mask.shape[1], mask.shape[2]) |->
        \A k \in 1..mask.shape[3] : mask.planes[k][p]]

(* mask.any(dim=2) *)
AnyDim2(mask) ==
    [p \in Pixels(mask.shape[1], mask.shape[2]) |->
        \E k \in 1..mask.shape[3] : mask.planes[k][p]]

(* the result is a tensor of shape (n, height, width) *)
convert_coco_poly_mask(segmentations, height, width) ==
    LET masks == [i \in 1..Len(segmentations) |->
                    AnyDim2(AddAxis(Decode(segmentations[i], height, width)))]
    IN  IF masks # <<>>
        THEN [shape |-> <<Len(masks), height, width>>, data |-> masks]
        ELSE [shape |-> <<0, height, width>>, data |-> <<>>]

-----------------------------------------------------------------------------
(* CocoDetection.parse_targets *)

(* tensor[keep] *)
RECURSIVE Masked(_, _)
Masked(seq, keep) ==
    IF seq = <<>> THEN <<>>
    ELSE LET n == Len(seq)
             front == Masked(SubSeq(seq, 1, n - 1), SubSeq(keep, 1, n - 1))
         IN  IF keep[n] THEN Append(front, seq[n]) ELSE front

(* seeded fault: crowd annotations are not filtered out *)
NonCrowd_all(coco_targets) == coco_targets

(* anno = [obj for obj in coco_targets if obj['iscrowd'] == 0] *)
NonCrowd(coco_targets) == SelectSeq(coco_targets, LAMBDA obj : obj.iscrowd = 0)

(* boxes[:, 2:] += boxes[:, :2] *)
ToCorners(boxes) ==
    [i \in 1..Len(boxes) |-> <<boxes[i][1], boxes[i][2],
                               boxes[i][3] + boxes[i][1], boxes[i][4] + boxes[i][2]>>]

(* boxes[:, 0::2].clamp_(min=0, max=w); boxes[:, 1::2].clamp_(min=0, max=h) *)
ClampBoxes(boxes, w, h) ==
    [i \in 1..Len(boxes) |-> <<Clamp(boxes[i][1], 0, w), Clamp(boxes[i][2], 0, h),
                               Clamp(boxes[i][3], 0, w), Clamp(boxes[i][4], 0, h)>>]

(* seeded fault: >= in place of > *)
Keep_nonstrict(boxes) ==
    [i \in 1..Len(boxes) |-> (boxes[i][4] >= boxes[i][2]) /\ (boxes[i][3] >= boxes[i][1])]

(* keep = (boxes[:, 3] > boxes[:, 1]) & (boxes[:, 2] > boxes[:, 0]) *)
Keep(boxes) ==
    [i \in 1..Len(boxes) |-> (boxes[i][4] > boxes[i][2]) /\ (boxes[i][3] > boxes[i][1])]

parse_targets(slf, img_id, coco_targets, w, h) ==
    IF ~(w > 0) \/ ~(h > 0) THEN Raised("AssertionError")
    ELSE
    LET anno == NonCrowd(coco_targets)
        n == Len(anno)
        boxes == ClampBoxes(ToCorners([i \in 1..n |-> anno[i].bbox]), w, h)
    IN  IF \E i \in 1..n : ~HasKey(slf.coco91to80, Str(anno[i].category_id))
        THEN Raised("KeyError")
        ELSE
        LET classes == [i \in 1..n |-> Lookup(slf.coco91to80, Str(anno[i].category_id))]
            segmentations == [i \in 1..n |-> anno[i].segmentation]
            masks == convert_coco_poly_mask(segmentations, h, w)
            keep == Keep(boxes)
            kept == Masked(masks.data, keep)
        IN  [raised |-> FALSE,
             boxes |-> Masked(boxes, keep),
             labels |-> Masked(classes, keep),
             masks |-> [shape |-> <<Len(kept), h, w>>, data |-> kept],
             image_id |-> <<img_id>>,
             area |-> [i \in 1..n |-> anno[i].area],
             iscrowd |-> [i \in 1..n |-> anno[i].iscrowd]]

-----------------------------------------------------------------------------
(* CocoDetection.__init__ *)

(* coco_classes = dict([(v["id"], v["name"]) for k, v in self.coco.cats.items()]) *)
CocoClasses(coco) ==
    DictOf([i \in 1..Len(coco.cats) |-> <<coco.cats[i][2].id, coco.cats[i][2].name>>])

(* seeded fault: idx in place of idx+1 *)
Coco91to80_from0(coco_classes) ==
    DictOf([i \in 1..Len(coco_classes) |-> <<Str(coco_classes[i][1]), i - 1>>])

(* dict([(str(k), idx+1) for idx, (k, _) in enumerate(coco_classes.items())]) *)
Coco91to80(coco_classes) ==
    DictOf([i \in 1..Len(coco_classes) |-> <<Str(coco_classes[i][1]), (i - 1) + 1>>])

(* seeded fault: idx in place of idx+1 *)
Coco80Info_from0(coco_classes) ==
    DictOf([i \in 1..Len(coco_classes) |-> <<Str(i - 1), coco_classes[i][2]>>])

(* dict([(str(idx+1), v) for idx, (_, v) in enumerate(coco_classes.items())]) *)
Coco80Info(coco_classes) ==
    DictOf([i \in 1..Len(coco_classes) |-> <<Str((i - 1) + 1), coco_classes[i][2]>>])

(* seeded fault: sorted(..., reverse=True) *)
RECURSIVE SortedDesc(_)
SortedDesc(S) ==
    IF S = {} THEN <<>>
    ELSE LET m == CHOOSE x \in S : \A y \in S : x >= y
         IN  <<m>> \o SortedDesc(S \ {m})
AllIds_desc(coco) == SortedDesc(DOMAIN coco.imgs)

(* ids = list(sorted(self.coco.imgs.keys())) *)
AllIds(coco) == Sorted(DOMAIN coco.imgs)

(* with open(name, 'w') as json_file: json_file.write(json_str) *)
WriteFile(fs, name, json_str) == [fs EXCEPT ![name] = [exists |-> TRUE, text |-> json_str]]

(* dataset == "train", the annotation file f exists *)
ConstructTrain(f) ==
    LET coco_classes == CocoClasses(f)
        coco91to80 == Coco91to80(coco_classes)
        coco80_info == Coco80Info(coco_classes)
        ids == AllIds(f)
    IN  /\ files' = WriteFile(WriteFile(files, MapFile, JsonDumps(coco91to80)),
                              IndicesFile, JsonDumps(coco80_info))
        /\ self' = [ok |-> TRUE, mode |-> "train", coco |-> f,
                    coco91to80 |-> coco91to80,
                    ids |-> _coco_remove_images_without_annotations(f, ids)]
        /\ lastWritten' = [written |-> TRUE, dict |-> coco91to80]
        /\ last' = [op |-> "__init__", mode |-> "train", raised |-> FALSE]
        /\ UNCHANGED <<disk, input>>

(* seeded fault: a val construction builds its mapping from its own categories *)
ConstructVal_own(f) ==
    /\ IF files[MapFile].exists
       THEN /\ self' = [ok |-> TRUE, mode |-> "val", coco |-> f,
                        coco91to80 |-> Coco91to80(CocoClasses(f)),
                        ids |-> AllIds(f)]
            /\ last' = [op |-> "__init__", mode |-> "val", raised |-> FALSE]
       ELSE /\ self' = NoDataset
            /\ last' = [op |-> "__init__", mode |-> "val", raised |-> TRUE]
    /\ UNCHANGED <<disk, files, lastWritten, input>>

(* dataset == "val", the annotation file f exists *)
ConstructVal(f) ==
    /\ IF files[MapFile].exists
       THEN /\ self' = [ok |-> TRUE, mode |-> "val", coco |-> f,
                        coco91to80 |-> JsonLoad(files[MapFile].text),
                        ids |-> AllIds(f)]
            /\ last' = [op |-> "__init__", mode |-> "val", raised |-> FALSE]
       ELSE /\ self' = NoDataset
            /\ last' = [op |-> "__init__", mode |-> "val", raised |-> TRUE]
    /\ UNCHANGED <<disk, files, lastWritten, input>>

(* root, the image directory or the annotation file does not exist: one of *)
(* the assertions of lines 76-80 fails before anything is read or written  *)
ConstructMissing(mode) ==
    /\ self' = NoDataset
    /\ last' = [op |-> "__init__", mode |-> mode, raised |-> TRUE]
    /\ UNCHANGED <<disk, files, lastWritten, input>>

-----------------------------------------------------------------------------
(* CocoDetection.__getitem__, __len__, get_height_and_width *)

(* Image.open(path).size: the image file has the size its record states *)
ImageSize(coco, img_id) == <<coco.imgs[img_id].width, coco.imgs[img_id].height>>

GetItem(index) ==
    /\ self.ok
    /\ IF InRange(self.ids, index)
       THEN LET img_id == PyIndex(self.ids, index)
                coco_target == LoadAnns(self.coco, img_id)
                size == ImageSize(self.coco, img_id)
            IN  last' = [op |-> "__getitem__", index |-> index,
                         ret |-> parse_targets(self, img_id, coco_target, size[1], size[2])]
       ELSE last' = [op |-> "__getitem__", index |-> index, ret |-> Raised("IndexError")]
    /\ UNCHANGED <<disk, files, self, lastWritten, input>>

LenOp ==
    /\ self.ok
    /\ last' = [op |-> "__len__", ret |-> Len(self.ids)]
    /\ UNCHANGED <<disk, files, self, lastWritten, input>>

get_height_and_width(index) ==
    /\ self.ok
    /\ IF InRange(self.ids, index)
       THEN LET img_id == PyIndex(self.ids, index)
                img_info == self.coco.imgs[img_id]
            IN  last' = [op |-> "get_height_and_width", index |-> index,
                         ret |-> <<img_info.height, img_info.width>>]
       ELSE last' = [op |-> "get_height_and_width", index |-> index,
                     ret |-> Raised("IndexError")]
    /\ UNCHANGED <<disk, files, self, lastWritten, input>>

-----------------------------------------------------------------------------
(* The annotation files the model draws its inputs from *)

(* Category ids are not consecutive (2, 12, 22, ...) and image ids neither *)
CatId(k) == 10 * k - 8
ImgId(k) == 3 * k + 4
CatNames == <<"person", "bicycle", "car", "motorcycle", "airplane">>

(* coco.cats: a dict keyed by category id, in the order of the annotation  *)
(* file; order is a sequence of distinct category numbers                  *)
CatsOf(order) ==
    [i \in 1..Len(order) |->
        <<CatId(order[i]), [id |-> CatId(order[i]), name |-> CatNames[order[i]]]>>]

Orders(n) ==
    {o \in UNION {[1..m -> 1..n] : m \in 0..n} :
        \A i, j \in DOMAIN o : i # j => o[i] # o[j]}

Polygons(parts) == [kind |-> "polygons", parts |-> parts]
Rle(counts) == [kind |-> "rle", counts |-> counts]

(* an object annotation whose segmentation is its own bbox rectangle, or   *)
(* an RLE of the top-left pixel for a crowd                                *)
Ann(img_id, bbox, iscrowd, cat) ==
    [image_id |-> img_id, bbox |-> bbox, iscrowd |-> iscrowd, category_id |-> cat,
     area |-> bbox[3] * bbox[4],
     segmentation |-> IF iscrowd = 0
                      THEN Polygons(<<<<bbox[1], bbox[2], bbox[1] + bbox[3], bbox[2] + bbox[4]>>>>)
                      ELSE Rle({<<1, 1>>})]

(* image k is MaxDim wide and MaxDim + k - 1 high *)
ImgInfo(k) == [width |-> MaxDim, height |-> MaxDim + k - 1]
Images(n) == [i \in {ImgId(k) : k \in 1..n} |-> ImgInfo(CHOOSE k \in 1..n : ImgId(k) = i)]

RECURSIVE Concat(_)
Concat(seqs) == IF seqs = <<>> THEN <<>> ELSE Head(seqs) \o Concat(Tail(seqs))

(* Files that differ in their categories: two images, the first with one   *)
(* object per category, the second without annotations                     *)
CatFiles ==
    {[cats |-> CatsOf(o),
      imgs |-> Images(2),
      anns |-> [i \in 1..Len(o) |-> Ann(ImgId(1), <<0, 0, 2, 2>>, 0, CatId(o[i]))]]
     : o \in Orders(MaxCats)}

(* Files that differ in their images: per image no annotation, a valid     *)
(* object, a thin object, a crowd, an object outside the image, or two     *)
ImgAnnLists(img_id) ==
    LET valid == Ann(img_id, <<0, 0, 2, 2>>, 0, CatId(1))
        thin == Ann(img_id, <<0, 0, 1, 2>>, 0, CatId(1))
        crowd == Ann(img_id, <<0, 0, 2, 2>>, 1, CatId(1))
        outside == Ann(img_id, <<MaxDim, 0, 2, 2>>, 0, CatId(1))
    IN  {<<>>, <<valid>>, <<thin>>, <<crowd>>, <<outside>>, <<crowd, valid>>, <<thin, valid>>}

ImgFile(n, per) ==
    [cats |-> CatsOf([i \in 1..MaxCats |-> i]),
     imgs |-> Images(n),
     anns |-> Concat([k \in 1..n |-> per[k]])]

-----------------------------------------------------------------------------
(* The dataset's life: constructions, then calls on the latest dataset *)

NoCall == [op |-> "none"]

Init ==
    /\ disk = CatFiles
    /\ files = [name \in {MapFile, IndicesFile} |-> NoFile]
    /\ self = NoDataset
    /\ lastWritten = NoDict
    /\ last = NoCall
    /\ input = NoInput

InitIds ==
    /\ \E n \in 0..MaxImgs :
          \E per \in [1..n -> UNION {ImgAnnLists(ImgId(k)) : k \in 1..n}] :
              /\ \A k \in 1..n : per[k] \in ImgAnnLists(ImgId(k))
              /\ disk = {ImgFile(n, per)}
    /\ files = [name \in {MapFile, IndicesFile} |-> NoFile]
    /\ self = NoDataset
    /\ lastWritten = NoDict
    /\ last = NoCall
    /\ input = NoInput

Next ==
    \/ \E f \in disk : ConstructTrain(f)
    \/ \E f \in disk : ConstructVal(f)
    \/ \E mode \in {"train", "val"} : ConstructMissing(mode)
    \/ \E index \in -1..MaxImgs : GetItem(index)
    \/ LenOp
    \/ \E index \in -1..MaxImgs : get_height_and_width(index)

Spec == Init /\ [][Next]_vars

SpecIds == InitIds /\ [][Next]_vars

-----------------------------------------------------------------------------
(* Direct calls of the helpers, on arguments drawn by the initial state *)

(* the boxes a filter input is made of: valid, thin, flat *)
FilterBoxes == {<<0, 0, 2, 2>>, <<0, 0, 1, 2>>, <<0, 0, 2, 1>>}

SeqsUpTo(S, n) == UNION {[1..m -> S] : m \in 0..n}

FilterDataset(n, per) ==
    [cats |-> CatsOf(<<1>>),
     imgs |-> Images(n),
     anns |-> Concat([k \in 1..n |->
                 [i \in 1..Len(per[k]) |-> Ann(ImgId(k), per[k][i], 0, CatId(1))]])]

InitFilter ==
    /\ \E n \in 0..MaxImgs :
          \E per \in [1..n -> SeqsUpTo(FilterBoxes, MaxAnns)] :
              input = [fn |-> "_coco_remove_images_without_annotations",
                       dataset |-> FilterDataset(n, per),
                       ids |-> AllIds(FilterDataset(n, per))]
    /\ disk = {}
    /\ files = [name \in {MapFile, IndicesFile} |-> NoFile]
    /\ self = NoDataset
    /\ lastWritten = NoDict
    /\ last = NoCall

CallFilter ==
    /\ input.fn = "_coco_remove_images_without_annotations"
    /\ last' = [op |-> input.fn,
                ret |-> _coco_remove_images_without_annotations(input.dataset, input.ids)]
    /\ UNCHANGED <<disk, files, self, lastWritten, input>>

SpecFilter == InitFilter /\ [][CallFilter]_vars

(* the annotations a parse_targets input is made of: boxes that start left *)
(* of, inside or at the right edge of the image, crossed with boxes inside *)
(* or below it, crowd or not, of the first or the last category            *)
XSpans == {<<-1, 1>>, <<-1, 2>>, <<1, MaxDim + 1>>}
YSpans == {<<0, 2>>, <<MaxDim, 2>>}
ParseAnns ==
    {Ann(ImgId(1), <<x[1], y[1], x[2], y[2]>>, c, CatId(k))
        : x \in XSpans, y \in YSpans, c \in {0, 1}, k \in {1, MaxCats}}

ParseSelf ==
    [ok |-> TRUE, coco91to80 |-> Coco91to80(CocoClasses([cats |-> CatsOf([i \in 1..MaxCats |-> i])]))]

InitParse ==
    /\ \E t \in SeqsUpTo(ParseAnns, MaxAnns) :
          \E w \in 0..MaxDim, h \in 0..MaxDim :
              input = [fn |-> "parse_targets", img_id |-> ImgId(1), coco_targets |-> t,
                       w |-> w, h |-> h]
    /\ disk = {}
    /\ files = [name \in {MapFile, IndicesFile} |-> NoFile]
    /\ self = ParseSelf
    /\ lastWritten = NoDict
    /\ last = NoCall

CallParseTargets ==
    /\ input.fn = "parse_targets"
    /\ last' = [op |-> input.fn,
                ret |-> parse_targets(self, input.img_id, input.coco_targets, input.w, input.h)]
    /\ UNCHANGED <<disk, files, self, lastWritten, input>>

SpecParse == InitParse /\ [][CallParseTargets]_vars

(* the segmentations a convert_coco_poly_mask input is made of *)
MaskParts == {<<0, 0, 1, 1>>, <<1, 0, 2, 2>>}
MaskSegs ==
    {Polygons(ps) : ps \in SeqsUpTo(MaskParts, MaxParts)} \cup {Rle({<<1, 1>>})}

InitMask ==
    /\ \E s \in SeqsUpTo(MaskSegs, MaxSegs) :
          \E h \in 1..MaxDim, w \in 1..MaxDim :
              input = [fn |-> "convert_coco_poly_mask", segmentations |-> s,
                       height |-> h, width |-> w]
    /\ disk = {}
    /\ files = [name \in {MapFile, IndicesFile} |-> NoFile]
    /\ self = NoDataset
    /\ lastWritten = NoDict
    /\ last = NoCall

CallConvert ==
    /\ input.fn = "convert_coco_poly_mask"
    /\ last' = [op |-> input.fn,
                ret |-> convert_coco_poly_mask(input.segmentations, input.height, input.width)]
    /\ UNCHANGED <<disk, files, self, lastWritten, input>>

SpecMask == InitMask /\ [][CallConvert]_vars

-----------------------------------------------------------------------------
(* Properties *)

Returned(call) == call.ret.raised = FALSE

(* C1: _coco_remove_images_without_annotations returns exactly the ids of  *)
(* its input that have an annotation whose bbox width and height are both  *)
(* > 1, in the input's order and as often as the input holds them.         *)
C1_FilterKeepsValidImages ==
    last.op = "_coco_remove_images_without_annotations" =>
        LET good(id) == \E i \in 1..Len(input.dataset.anns) :
                            /\ input.dataset.anns[i].image_id = id
                            /\ input.dataset.anns[i].bbox[3] > 1
                            /\ input.dataset.anns[i].bbox[4] > 1
        IN  last.ret = SelectSeq(input.ids, good)

(* an image whose two annotations are both thin or flat is removed while   *)
(* another image is kept                                                   *)
C1_Witness ==
    /\ last.op = "_coco_remove_images_without_annotations"
    /\ Len(last.ret) = 1
    /\ \E id \in DOMAIN input.dataset.imgs :
          /\ Len(LoadAnns(input.dataset, id)) = 2
          /\ \A i \in 1..Len(last.ret) : last.ret[i] # id

(* C2: the coco91to80 of a train construction maps the k-th category of    *)
(* coco.cats to k: its keys are the ids as strings, pairwise distinct, and *)
(* its values are exactly 1..N for the N categories.                       *)
C2_RemapIsBijection ==
    (self.ok /\ self.mode = "train") =>
        LET cats == self.coco.cats
            N == Len(cats)
            m == self.coco91to80
        IN  /\ Len(m) = N
            /\ \A k \in 1..N : m[k] = <<Str(cats[k][1]), k>>
            /\ \A i, j \in 1..N : i # j => m[i][1] # m[j][1]
            /\ {m[i][2] : i \in 1..N} = 1..N

C2_Witness ==
    /\ self.ok /\ self.mode = "train"
    /\ Len(self.coco.cats) >= 2
    /\ self.coco.cats[1][1] > self.coco.cats[2][1]

(* C3: a val construction leaves the side files alone, raises when no      *)
(* train construction has written the mapping yet, and otherwise holds the *)
(* mapping the latest train construction wrote.                            *)
C3_ValReadsSideFile ==
    [][(last'.op = "__init__" /\ last'.mode = "val") =>
          /\ files' = files
          /\ (~lastWritten.written => (~self'.ok /\ last'.raised))
          /\ (self'.ok =>
                /\ lastWritten.written
                /\ Keys(self'.coco91to80) = Keys(lastWritten.dict)
                /\ \A k \in Keys(lastWritten.dict) :
                      Lookup(self'.coco91to80, k) = Lookup(lastWritten.dict, k))]_vars

(* a val dataset whose mapping is not the one its own categories give *)
C3_Witness ==
    /\ last.op = "__init__" /\ last.mode = "val"
    /\ self.ok
    /\ Len(self.coco91to80) >= 2
    /\ self.coco91to80 # Coco91to80(CocoClasses(self.coco))

(* C4: the boxes of a target are the non-crowd bboxes, as clamped corners, *)
(* that have xmax > xmin and ymax > ymin; each lies inside the image.      *)
C4_BoxesClampedAndValid ==
    (last.op = "parse_targets" /\ Returned(last)) =>
        LET w == input.w
            h == input.h
            cl(v, hi) == IF v < 0 THEN 0 ELSE IF v > hi THEN hi ELSE v
            conv(b) == <<cl(b[1], w), cl(b[2], h), cl(b[1] + b[3], w), cl(b[2] + b[4], h)>>
            valid(obj) == /\ obj.iscrowd = 0
                          /\ conv(obj.bbox)[3] > conv(obj.bbox)[1]
                          /\ conv(obj.bbox)[4] > conv(obj.bbox)[2]
            kept == SelectSeq(input.coco_targets, valid)
            boxes == last.ret.boxes
        IN  /\ boxes = [i \in 1..Len(kept) |-> conv(kept[i].bbox)]
            /\ \A i \in 1..Len(boxes) :
                  /\ 0 <= boxes[i][1] /\ boxes[i][1] < boxes[i][3] /\ boxes[i][3] <= w
                  /\ 0 <= boxes[i][2] /\ boxes[i][2] < boxes[i][4] /\ boxes[i][4] <= h

(* a box clamped at the right edge is kept and a degenerate one is dropped *)
C4_Witness ==
    /\ last.op = "parse_targets" /\ Returned(last)
    /\ Len(last.ret.boxes) = 1
    /\ Len(NonCrowd(input.coco_targets)) = 2
    /\ last.ret.boxes[1][3] = input.w
    /\ \E i \in 1..2 : NonCrowd(input.coco_targets)[i].bbox[1]
                           + NonCrowd(input.coco_targets)[i].bbox[3] > input.w

(* C5: after a train construction the two side files agree: the indices    *)
(* file maps the index of every category to its name, and its keys are     *)
(* exactly "1".."N".                                                       *)
C5_SideFilesAgree ==
    (self.ok /\ self.mode = "train") =>
        /\ files[MapFile].exists
        /\ files[IndicesFile].exists
        /\ LET coco91_to_80 == JsonLoad(files[MapFile].text)
               coco80_indices == JsonLoad(files[IndicesFile].text)
               cats == self.coco.cats
           IN  /\ \A i \in 1..Len(cats) :
                     /\ HasKey(coco91_to_80, Str(cats[i][2].id))
                     /\ HasKey(coco80_indices, Str(Lookup(coco91_to_80, Str(cats[i][2].id))))
                     /\ Lookup(coco80_indices, Str(Lookup(coco91_to_80, Str(cats[i][2].id))))
                            = cats[i][2].name
               /\ Keys(coco80_indices) = {Str(k) : k \in 1..Len(cats)}

C5_Witness ==
    /\ self.ok /\ self.mode = "train"
    /\ Len(self.coco.cats) >= 2
    /\ files[IndicesFile].exists
    /\ Len(files[IndicesFile].text) >= 2

(* C6: boxes, labels and masks of a target are index-aligned: entry j of   *)
(* each comes from the j-th input annotation that is not a crowd and whose *)
(* clamped box is valid.                                                   *)
C6_BoxesLabelsMasksAligned ==
    (last.op = "parse_targets" /\ Returned(last)) =>
        LET w == input.w
            h == input.h
            cl(v, hi) == IF v < 0 THEN 0 ELSE IF v > hi THEN hi ELSE v
            conv(b) == <<cl(b[1], w), cl(b[2], h), cl(b[1] + b[3], w), cl(b[2] + b[4], h)>>
            valid(obj) == /\ obj.iscrowd = 0
                          /\ conv(obj.bbox)[3] > conv(obj.bbox)[1]
                          /\ conv(obj.bbox)[4] > conv(obj.bbox)[2]
            src == SelectSeq(input.coco_targets, valid)
            t == last.ret
        IN  /\ Len(t.boxes) = Len(src)
            /\ Len(t.labels) = Len(src)
            /\ Len(t.masks.data) = Len(src)
            /\ t.masks.shape = <<Len(src), h, w>>
            /\ \A j \in 1..Len(src) :
                  /\ src[j].iscrowd = 0
                  /\ t.boxes[j] = conv(src[j].bbox)
                  /\ t.labels[j] = Lookup(self.coco91to80, Str(src[j].category_id))
                  /\ t.masks.data[j]
                        = convert_coco_poly_mask(<<src[j].segmentation>>, h, w).data[1]

(* the first annotation is dropped for its degenerate box and the second,  *)
(* of another category, is kept                                            *)
C6_Witness ==
    /\ last.op = "parse_targets" /\ Returned(last)
    /\ Len(input.coco_targets) = 2
    /\ input.coco_targets[1].iscrowd = 0
    /\ input.coco_targets[1].category_id # input.coco_targets[2].category_id
    /\ Len(last.ret.boxes) = 1
    /\ last.ret.labels = <<Lookup(self.coco91to80, Str(input.coco_targets[2].category_id))>>

(* C7: area and iscrowd of a target have one entry per box. *)
C7_AreaAndIscrowdPerBox ==
    (last.op = "parse_targets" /\ Returned(last)) =>
        /\ Len(last.ret.area) = Len(last.ret.boxes)
        /\ Len(last.ret.iscrowd) = Len(last.ret.boxes)

(* C8: the target of every image a train construction keeps has a box. *)
C8_TrainTargetsNotEmpty ==
    (/\ self.ok /\ self.mode = "train"
     /\ last.op = "__getitem__" /\ last.index \in 0..(Len(self.ids) - 1)
     /\ Returned(last)) =>
        Len(last.ret.boxes) >= 1

(* C9: a val dataset lists every image id; ids are strictly ascending;     *)
(* __len__ is their number; __getitem__ and get_height_and_width at index  *)
(* i answer for the image ids[i].                                          *)
C9_IdsAndIndexing ==
    /\ (self.ok /\ self.mode = "val") =>
          /\ {self.ids[i] : i \in 1..Len(self.ids)} = DOMAIN self.coco.imgs
          /\ Len(self.ids) = Cardinality(DOMAIN self.coco.imgs)
    /\ self.ok => \A i, j \in 1..Len(self.ids) : i < j => self.ids[i] < self.ids[j]
    /\ last.op = "__len__" => last.ret = Len(self.ids)
    /\ (last.op = "__getitem__" /\ last.index \in 0..(Len(self.ids) - 1)) =>
          /\ Returned(last)
          /\ last.ret.image_id = <<self.ids[last.index + 1]>>
    /\ (last.op = "get_height_and_width" /\ last.index \in 0..(Len(self.ids) - 1)) =>
          last.ret = <<self.coco.imgs[self.ids[last.index + 1]].height,
                       self.coco.imgs[self.ids[last.index + 1]].width>>

(* the second item of a val dataset is an image without annotations *)
C9_Witness ==
    /\ self.ok /\ self.mode = "val"
    /\ last.op = "__getitem__" /\ last.index = 1
    /\ Returned(last)
    /\ LoadAnns(self.coco, self.ids[2]) = <<>>
    /\ last.ret.image_id = <<ImgId(2)>>

(* C10: convert_coco_poly_mask returns one height x width mask per         *)
(* segmentation, in order; the mask of a segmentation is the union of its  *)
(* parts; no segmentation gives a tensor of shape (0, height, width).      *)
C10_OneMaskPerSegmentation ==
    last.op = "convert_coco_poly_mask" =>
        LET segs == input.segmentations
            h == input.height
            w == input.width
            inPart(part, p) == /\ part[1] < p[2] /\ p[2] <= part[3]
                               /\ part[2] < p[1] /\ p[1] <= part[4]
        IN  /\ last.ret.shape = <<Len(segs), h, w>>
            /\ Len(last.ret.data) = Len(segs)
            /\ \A i \in 1..Len(segs) :
                  /\ DOMAIN last.ret.data[i] = (1..h) \X (1..w)
                  /\ \A p \in (1..h) \X (1..w) :
                        last.ret.data[i][p] =
                            IF segs[i].kind = "polygons"
                            THEN \E k \in 1..Len(segs[i].parts) : inPart(segs[i].parts[k], p)
                            ELSE p \in segs[i].counts

(* a segmentation of two different parts, each covering a pixel the other  *)
(* does not, after an RLE                                                  *)
C10_Witness ==
    /\ last.op = "convert_coco_poly_mask"
    /\ input.height = 2 /\ input.width = 2
    /\ Len(input.segmentations) = 2
    /\ input.segmentations[1].kind = "rle"
    /\ input.segmentations[2].kind = "polygons"
    /\ Len(input.segmentations[2].parts) = 2
    /\ last.ret.data[2][<<1, 1>>] /\ last.ret.data[2][<<1, 2>>]
    /\ input.segmentations[2].parts[1] # input.segmentations[2].parts[2]

====
